---- MODULE Spec2Model ----
(***************************************************************************)
(* Model of src/app.py, the Streamlit biochar yield estimator.             *)
(*                                                                         *)
(* A Streamlit script is executed from top to bottom once when the page    *)
(* opens and again after every widget interaction.  Each execution starts  *)
(* from an empty namespace; only the widget values survive.  One action of *)
(* the model is one interaction followed by the complete re-execution.     *)
(*                                                                         *)
(* Numbers: the script computes with Python floats.  The model computes    *)
(* with exact rationals <<numerator, denominator>> in lowest terms, so the *)
(* results are those of exact arithmetic; binary rounding is not modelled. *)
(***************************************************************************)
EXTENDS Integers, Sequences, FiniteSets

\* ------------------------------------------------------------------ bounds
MaxHectares == 2        \* hectares entered: 0 .. MaxHectares
MaxHeightSteps == 1     \* pile heights entered: k * 25/64 m, k in 0 .. MaxHeightSteps
MaxLines == 3           \* lines of coordinate text

\* --------------------------------------------------------- exact arithmetic
None == <<>>

Abs(n) == IF n < 0 THEN -n ELSE n

RECURSIVE GCD(_, _)
GCD(a, b) == IF b = 0 THEN a ELSE GCD(b, a % b)

Rat(n, d) == LET g == GCD(Abs(n), d) IN <<n \div g, d \div g>>

RMul(a, b) ==
    IF a[1] = 0 \/ b[1] = 0 THEN <<0, 1>>
    ELSE LET g1 == GCD(Abs(a[1]), b[2])
             g2 == GCD(Abs(b[1]), a[2])
         IN  <<(a[1] \div g1) * (b[1] \div g2), (a[2] \div g2) * (b[2] \div g1)>>

\* a / b for b > 0
RDiv(a, b) == RMul(a, <<b[2], b[1]>>)

RAbs(a) == <<Abs(a[1]), a[2]>>

\* a < b; operands of one sign are compared on the quotient |a| / |b| in
\* lowest terms
RLess(a, b) ==
    IF a[1] = 0 \/ b[1] = 0 \/ (a[1] < 0) # (b[1] < 0)
    THEN a[1] < b[1]
    ELSE LET q == RDiv(RAbs(a), RAbs(b))
         IN  IF a[1] > 0 THEN q[1] < q[2] ELSE q[2] < q[1]

\* ------------------------------------------------------------ lookup table
FeedstockNames ==
    << "Rice husk", "Wood chips", "Corn cobs", "Coconut shells", "Bamboo",
       "Sugarcane bagasse", "Groundnut shells", "Sludge", "Maize stalks",
       "Cotton stalks", "Palm kernel shells", "Other" >>

Profile(d, y, h, c) ==
    [density |-> Rat(d, 1), yield_factor |-> Rat(y, 100),
     default_height |-> Rat(h, 100), coverage_fraction |-> Rat(c, 100)]

FeedstockTable ==
    [n \in {FeedstockNames[i] : i \in 1..Len(FeedstockNames)} |->
        CASE n = "Rice husk"          -> Profile(96, 25, 20, 8)
          [] n = "Wood chips"         -> Profile(208, 30, 30, 4)
          [] n = "Corn cobs"          -> Profile(190, 28, 25, 5)
          [] n = "Coconut shells"     -> Profile(220, 35, 30, 3)
          [] n = "Bamboo"             -> Profile(180, 33, 25, 5)
          [] n = "Sugarcane bagasse"  -> Profile(140, 22, 20, 10)
          [] n = "Groundnut shells"   -> Profile(130, 26, 20, 7)
          [] n = "Sludge"             -> Profile(110, 50, 15, 6)
          [] n = "Maize stalks"       -> Profile(120, 28, 25, 7)
          [] n = "Cotton stalks"      -> Profile(150, 30, 25, 6)
          [] n = "Palm kernel shells" -> Profile(200, 32, 30, 4)
          [] n = "Other"              -> Profile(160, 27, 25, 5)]

\* ---------------------------------------------------------------- widgets
Direct == "Direct (hectares)"
PolygonCoordinates == "Polygon Coordinates"
AreaInputMethods == {Direct, PolygonCoordinates}

\* Messages the script can put on the page.
InfoMin3 == "Please enter at least 3 coordinate points."
WarnFormat == "Invalid coordinate format. Please use 'lat,lon' per line."
SuccessPolygon == "Polygon area"
InfoIncomplete == "Please complete all inputs (area and pile height) to see results."
Results == "Practical Results"
WarnRate == "The application rate exceeds the recommended maximum of 10 t/ha."

\* A line of coordinate text is modelled by the fields that
\* re.split(r"[,\s]+", line.strip()) returns; a line whose strip() is empty
\* is the empty sequence.  A field is either a decimal literal (val counts
\* thousandths of a degree) or text that float() rejects (a word, or the
\* empty field left by a leading or trailing comma).
NumTok(k) == [kind |-> "num", val |-> k]
BadTok == [kind |-> "bad", val |-> 0]

LineChoices ==
    { <<>>,
      <<NumTok(0), NumTok(0)>>, <<NumTok(0), NumTok(1)>>, <<NumTok(1), NumTok(0)>>,
      <<BadTok, NumTok(0)>>,
      <<NumTok(0), NumTok(0), NumTok(0)>> }

HeightChoices == {Rat(25 * k, 64) : k \in 0..MaxHeightSteps}

\* ------------------------------------------------------- area resolution
\* variant of line 50: the area of the previous run is kept
AreaAtStart_Keep(old) == old

\* line 50
AreaAtStart(old) == None

\* variant of line 53: wrong unit factor
DirectArea_Thousand(h) == RMul(Rat(h, 1), <<1000, 1>>)

\* line 53
DirectArea(h) == RMul(Rat(h, 1), <<10000, 1>>)

\* line 58: the lines kept by "if line.strip()"
NonBlank(text) == SelectSeq(text, LAMBDA l : l # <<>>)

\* line 58: float() raises ValueError on some field
FloatRaises(text) ==
    \E i \in 1..Len(text) : \E j \in 1..Len(text[i]) : text[i][j].kind = "bad"

\* line 58: the list of tuples of floats
ParseCoords(text) ==
    LET ls == NonBlank(text)
    IN  [i \in 1..Len(ls) |-> [j \in 1..Len(ls[i]) |-> ls[i][j].val]]

\* variant of line 59: two points accepted
EnoughVertices_Two(coords) == Len(coords) >= 2

\* line 59
EnoughVertices(coords) == Len(coords) >= 3

\* line 60: "for lat, lon in coords" raises ValueError on a tuple that is not a pair
UnpackRaises(coords) == \E i \in 1..Len(coords) : Len(coords[i]) # 2

RECURSIVE Shoelace(_, _, _)
Shoelace(xs, ys, i) ==
    IF i > Len(xs) THEN 0
    ELSE LET j == IF i = Len(xs) THEN 1 ELSE i + 1
         IN  xs[i] * ys[j] - xs[j] * ys[i] + Shoelace(xs, ys, i + 1)

\* line 61: geod.polygon_area_perimeter(lons, lats)[0], the signed area in
\* square metres: positive for a counter-clockwise ring, negative for a
\* clockwise one, zero for a degenerate one.  The library is not part of the
\* repository; for the parcels of the model (a few thousandths of a degree
\* near the equator) it is the planar signed area, one thousandth of a
\* degree squared being about 12309 square metres.
GeodPolygonArea(lons, lats) == Rat(Shoelace(lons, lats, 1) * 12309, 2)

\* lines 58-65, the body of the try statement
TryBody(start, text) ==
    IF FloatRaises(text)
    THEN [raised |-> TRUE, area_m2 |-> start, shown |-> {}]
    ELSE LET coords == ParseCoords(text)
         IN  IF EnoughVertices(coords)
             THEN IF UnpackRaises(coords)
                  THEN [raised |-> TRUE, area_m2 |-> start, shown |-> {}]
                  ELSE LET lats == [i \in 1..Len(coords) |-> coords[i][1]]
                           lons == [i \in 1..Len(coords) |-> coords[i][2]]
                       IN  [raised |-> FALSE,
                            area_m2 |-> RAbs(GeodPolygonArea(lons, lats)),
                            shown |-> {SuccessPolygon}]
             ELSE [raised |-> FALSE, area_m2 |-> start, shown |-> {InfoMin3}]

\* lines 66-67: "except Exception" turns whatever the try body raised into the
\* warning; a body that raised nothing passes through
ExceptException(r) ==
    IF r.raised
    THEN [area_m2 |-> r.area_m2, shown |-> r.shown \cup {WarnFormat}]
    ELSE [area_m2 |-> r.area_m2, shown |-> r.shown]

\* lines 57-67: try / except Exception
PolygonBranch(start, text) == ExceptException(TryBody(start, text))

\* lines 50-67
ResolveArea(old, method, hect, text) ==
    LET start == AreaAtStart(old)
    IN  IF method = Direct
        THEN [area_m2 |-> DirectArea(hect), shown |-> {}]
        ELSE PolygonBranch(start, text)

\* ------------------------------------------------------ yield calculation
\* variant of line 76: "area_m2 is None" in place of "not area_m2"
Incomplete_IsNone(area, h) == area = None \/ ~ RLess(<<0, 1>>, h)

\* line 76
Incomplete(area, h) == area = None \/ area = <<0, 1>> \/ ~ RLess(<<0, 1>>, h)

\* line 83
AreaHa(area) == RDiv(area, <<10000, 1>>)
\* variant of line 84: coverage fraction left out
PileArea_NoCoverage(area, info) == area
\* line 84
PileArea(area, info) == RMul(area, info.coverage_fraction)
\* variant of line 85: pile height left out
Volume_NoHeight(pile, h) == pile
\* line 85
Volume(pile, h) == RMul(pile, h)
\* line 86
Biomass(vol, info) == RMul(vol, info.density)
\* line 87
Biochar(bm, info) == RMul(bm, info.yield_factor)
\* variant of line 88: the total is not divided by the area
ApplicationRate_Total(bc, ha) == bc
\* line 88
ApplicationRate(bc, ha) == IF RLess(<<0, 1>>, ha) THEN RDiv(bc, ha) ELSE <<0, 1>>
\* variant of line 95: ">=" in place of ">"
ExceedsMax_AtLeast(rate) == ~ RLess(rate, <<10000, 1>>)
\* line 95
ExceedsMax(rate) == RLess(<<10000, 1>>, rate)

NoEstimate ==
    [area_ha |-> None, pile_area_m2 |-> None, volume_m3 |-> None, biomass_kg |-> None,
     biochar_kg |-> None, application_rate_kg_per_ha |-> None,
     shown |-> {}, uncaught |-> FALSE]

\* lines 79-96
Estimate(info, area, h) ==
    IF area = None
    THEN [NoEstimate EXCEPT !.uncaught = TRUE]   \* TypeError at line 83
    ELSE LET ha   == AreaHa(area)
             pile == PileArea(area, info)
             vol  == Volume(pile, h)
             bm   == Biomass(vol, info)
             bc   == Biochar(bm, info)
             rate == ApplicationRate(bc, ha)
         IN  [area_ha |-> ha, pile_area_m2 |-> pile, volume_m3 |-> vol, biomass_kg |-> bm,
              biochar_kg |-> bc, application_rate_kg_per_ha |-> rate,
              shown |-> IF ExceedsMax(rate) THEN {Results, WarnRate} ELSE {Results},
              uncaught |-> FALSE]

\* lines 75-96
CalculateButton(click, info, area, h) ==
    IF ~ click THEN NoEstimate
    ELSE IF Incomplete(area, h)
         THEN [NoEstimate EXCEPT !.shown = {InfoIncomplete}]
         ELSE Estimate(info, area, h)

\* --------------------------------------------------------- one script run
\* The namespace and page at the end of the script, from the widget values,
\* the outcome res of lines 50-67 and the outcome est of lines 75-96.
EndOfScript(f, method, hect, text, h, click, res, est) ==
    [FEEDSTOCK_DATA |-> FeedstockTable, feedstock_type |-> f,
     area_input_method |-> method, hectares |-> hect, coords_text |-> text,
     area_m2 |-> res.area_m2, height_m |-> h, clicked |-> click,
     area_ha |-> est.area_ha, pile_area_m2 |-> est.pile_area_m2,
     volume_m3 |-> est.volume_m3, biomass_kg |-> est.biomass_kg,
     biochar_kg |-> est.biochar_kg,
     application_rate_kg_per_ha |-> est.application_rate_kg_per_ha,
     shown |-> res.shown \cup est.shown, uncaught |-> est.uncaught]

\* lines 69-108, after the area outcome res of lines 50-67; line 44 looks the
\* feedstock up in the table
ButtonStep(f, method, hect, text, h, click, res) ==
    EndOfScript(f, method, hect, text, h, click, res,
                CalculateButton(click, FeedstockTable[f], res.area_m2, h))

\* The namespace and page left by one execution of the script (lines 8-108),
\* given what was there before and the widget values of this execution.
Script(old_area, f, method, hect, text, h, click) ==
    ButtonStep(f, method, hect, text, h, click, ResolveArea(old_area, method, hect, text))

VARIABLES FEEDSTOCK_DATA, feedstock_type, area_input_method, hectares, coords_text,
          area_m2, height_m, clicked, area_ha, pile_area_m2, volume_m3, biomass_kg,
          biochar_kg, application_rate_kg_per_ha, shown, uncaught

vars == <<FEEDSTOCK_DATA, feedstock_type, area_input_method, hectares, coords_text,
          area_m2, height_m, clicked, area_ha, pile_area_m2, volume_m3, biomass_kg,
          biochar_kg, application_rate_kg_per_ha, shown, uncaught>>

\* The state as one record.
Namespace ==
    [FEEDSTOCK_DATA |-> FEEDSTOCK_DATA, feedstock_type |-> feedstock_type,
     area_input_method |-> area_input_method, hectares |-> hectares,
     coords_text |-> coords_text, area_m2 |-> area_m2, height_m |-> height_m,
     clicked |-> clicked, area_ha |-> area_ha, pile_area_m2 |-> pile_area_m2,
     volume_m3 |-> volume_m3, biomass_kg |-> biomass_kg, biochar_kg |-> biochar_kg,
     application_rate_kg_per_ha |-> application_rate_kg_per_ha,
     shown |-> shown, uncaught |-> uncaught]

\* The first execution: every widget at its default, nothing defined before.
Init ==
    \E ns \in {Script(None, FeedstockNames[1], Direct, 0, <<>>,
                       FeedstockTable[FeedstockNames[1]].default_height, FALSE)} :
        /\ FEEDSTOCK_DATA = ns.FEEDSTOCK_DATA
        /\ feedstock_type = ns.feedstock_type
        /\ area_input_method = ns.area_input_method
        /\ hectares = ns.hectares
        /\ coords_text = ns.coords_text
        /\ area_m2 = ns.area_m2
        /\ height_m = ns.height_m
        /\ clicked = ns.clicked
        /\ area_ha = ns.area_ha
        /\ pile_area_m2 = ns.pile_area_m2
        /\ volume_m3 = ns.volume_m3
        /\ biomass_kg = ns.biomass_kg
        /\ biochar_kg = ns.biochar_kg
        /\ application_rate_kg_per_ha = ns.application_rate_kg_per_ha
        /\ shown = ns.shown
        /\ uncaught = ns.uncaught

\* A re-execution with the given widget values.
Rerun(f, method, hect, text, h, click) ==
    \E ns \in {Script(area_m2, f, method, hect, text, h, click)} :
        /\ FEEDSTOCK_DATA' = ns.FEEDSTOCK_DATA
        /\ feedstock_type' = ns.feedstock_type
        /\ area_input_method' = ns.area_input_method
        /\ hectares' = ns.hectares
        /\ coords_text' = ns.coords_text
        /\ area_m2' = ns.area_m2
        /\ height_m' = ns.height_m
        /\ clicked' = ns.clicked
        /\ area_ha' = ns.area_ha
        /\ pile_area_m2' = ns.pile_area_m2
        /\ volume_m3' = ns.volume_m3
        /\ biomass_kg' = ns.biomass_kg
        /\ biochar_kg' = ns.biochar_kg
        /\ application_rate_kg_per_ha' = ns.application_rate_kg_per_ha
        /\ shown' = ns.shown
        /\ uncaught' = ns.uncaught

\* line 40: st.selectbox.  The pile-height widget of line 72 is identified by
\* its label and default, which contain def_height: it keeps its value when
\* the new feedstock has the same default height and starts at the new
\* default otherwise.
SelectFeedstock ==
    \E i \in 1..Len(FeedstockNames) :
        LET f == FeedstockNames[i]
            d == FEEDSTOCK_DATA[f].default_height
        IN  /\ f # feedstock_type
            /\ Rerun(f, area_input_method, hectares, coords_text,
                     IF d = FEEDSTOCK_DATA[feedstock_type].default_height THEN height_m ELSE d,
                     FALSE)

\* line 48: st.radio.  The input widget of the chosen method is rendered anew
\* with its default (0.0 hectares, empty text).
ChooseMethod ==
    \E m \in AreaInputMethods :
        /\ m # area_input_method
        /\ Rerun(feedstock_type, m, 0, <<>>, height_m, FALSE)

\* line 52: st.number_input, min_value 0.0
EnterHectares ==
    \E x \in 0..MaxHectares :
        /\ area_input_method = Direct
        /\ x # hectares
        /\ Rerun(feedstock_type, area_input_method, x, coords_text, height_m, FALSE)

\* line 56: st.text_area; the user adds a line to the text
AppendLine ==
    \E l \in LineChoices :
        /\ area_input_method = PolygonCoordinates
        /\ Len(coords_text) < MaxLines
        /\ Rerun(feedstock_type, area_input_method, hectares, Append(coords_text, l),
                 height_m, FALSE)

\* line 56: st.text_area; the user empties the text
ClearText ==
    /\ area_input_method = PolygonCoordinates
    /\ coords_text # <<>>
    /\ Rerun(feedstock_type, area_input_method, hectares, <<>>, height_m, FALSE)

\* line 72: st.number_input, min_value 0.0
EnterHeight ==
    \E h \in HeightChoices \cup {FEEDSTOCK_DATA[feedstock_type].default_height} :
        /\ h # height_m
        /\ Rerun(feedstock_type, area_input_method, hectares, coords_text, h, FALSE)

\* line 75: st.button is True in the execution that the click triggers
ClickButton ==
    Rerun(feedstock_type, area_input_method, hectares, coords_text, height_m, TRUE)

Next ==
    \/ SelectFeedstock
    \/ ChooseMethod
    \/ EnterHectares
    \/ AppendLine
    \/ ClearText
    \/ EnterHeight
    \/ ClickButton

Spec == Init /\ [][Next]_vars

\* ------------------------------------------------------------- properties
Zero == <<0, 1>>
Positive(x) == x # None /\ RLess(Zero, x)
Calculated == Results \in shown
NothingComputed ==
    /\ Results \notin shown
    /\ WarnRate \notin shown
    /\ area_ha = None
    /\ pile_area_m2 = None
    /\ volume_m3 = None
    /\ biomass_kg = None
    /\ biochar_kg = None
    /\ application_rate_kg_per_ha = None
SelectedProfile == FeedstockTable[feedstock_type]

\* C1: when the button is clicked and the resolved area is unset or 0, or the
\* pile height is not positive, nothing is computed, the incomplete-input
\* notice is shown and the run ends without an exception.
C1_GuardBlocksCalculation ==
    (clicked /\ (area_m2 = None \/ area_m2 = Zero \/ ~ RLess(Zero, height_m)))
        => (InfoIncomplete \in shown /\ NothingComputed /\ ~ uncaught)

\* C1 witness: a click with a resolved area of exactly 0 and a positive height.
C1_Witness ==
    /\ clicked
    /\ area_m2 = Zero
    /\ RLess(Zero, height_m)
    /\ InfoIncomplete \in shown

\* C2: a click with area > 0 and height > 0 computes pile area, volume,
\* biomass, biochar and rate by the chain of products of the selected
\* feedstock's parameters; Rice husk, 10000 m2, 0.2 m gives 800, 160, 15360,
\* 3840 and 3840 kg/ha.
C2_YieldChain ==
    /\ (clicked /\ Positive(area_m2) /\ Positive(height_m)) => Calculated
    /\ Calculated =>
          /\ pile_area_m2 = RMul(area_m2, SelectedProfile.coverage_fraction)
          /\ volume_m3 = RMul(pile_area_m2, height_m)
          /\ biomass_kg = RMul(volume_m3, SelectedProfile.density)
          /\ biochar_kg = RMul(biomass_kg, SelectedProfile.yield_factor)
          /\ application_rate_kg_per_ha = RDiv(biochar_kg, RDiv(area_m2, <<10000, 1>>))
    /\ (clicked /\ feedstock_type = "Rice husk" /\ area_m2 = <<10000, 1>>
            /\ height_m = <<1, 5>>) =>
          /\ pile_area_m2 = <<800, 1>>
          /\ volume_m3 = <<160, 1>>
          /\ biomass_kg = <<15360, 1>>
          /\ biochar_kg = <<3840, 1>>
          /\ application_rate_kg_per_ha = <<3840, 1>>

\* C2 witness: the Rice husk scenario has been calculated.
C2_Witness ==
    /\ Calculated
    /\ feedstock_type = "Rice husk"
    /\ area_m2 = <<10000, 1>>
    /\ height_m = <<1, 5>>
    /\ biochar_kg = <<3840, 1>>

\* C3: with the Direct method the resolved area is hectares x 10000 and no
\* area notice or exception occurs.
C3_DirectArea ==
    area_input_method = Direct =>
        /\ area_m2 = <<hectares * 10000, 1>>
        /\ shown \cap {InfoMin3, WarnFormat, SuccessPolygon} = {}
        /\ ~ uncaught

\* C3 witness: two hectares entered directly.
C3_Witness ==
    /\ area_input_method = Direct
    /\ hectares = 2
    /\ area_m2 = <<20000, 1>>

WellFormedLine(l) == Len(l) = 2 /\ \A j \in 1..Len(l) : l[j].kind = "num"
NonBlankCount(text) == Cardinality({i \in 1..Len(text) : text[i] # <<>>})
AllWellFormed(text) == \A i \in 1..Len(text) : text[i] = <<>> \/ WellFormedLine(text[i])
SomeMalformed(text) == \E i \in 1..Len(text) : text[i] # <<>> /\ ~ WellFormedLine(text[i])

\* C4: polygon text of 0, 1 or 2 well-formed lines gives the at-least-3-points
\* notice, no exception and no area; a click then gives the incomplete-input
\* notice and no result.
C4_InsufficientVertices ==
    (area_input_method = PolygonCoordinates /\ AllWellFormed(coords_text)
        /\ NonBlankCount(coords_text) < 3) =>
        /\ InfoMin3 \in shown
        /\ shown \cap {WarnFormat, SuccessPolygon} = {}
        /\ area_m2 = None
        /\ ~ uncaught
        /\ clicked => (InfoIncomplete \in shown /\ NothingComputed)

\* C4 witness: two well-formed lines, then a click.
C4_Witness ==
    /\ area_input_method = PolygonCoordinates
    /\ AllWellFormed(coords_text)
    /\ NonBlankCount(coords_text) = 2
    /\ clicked
    /\ InfoIncomplete \in shown

\* C5: polygon text with any malformed non-blank line (a field float() rejects,
\* or a number of fields other than two) gives the invalid-format warning,
\* whatever the number of lines, with no exception and no area.
C5_MalformedGivesFormatWarning ==
    (area_input_method = PolygonCoordinates /\ SomeMalformed(coords_text)) =>
        /\ WarnFormat \in shown
        /\ area_m2 = None
        /\ ~ uncaught

\* C6: when a calculation runs the advisory is shown exactly when the rate is
\* above 10000 kg/ha, and the results are produced in full either way.
C6_AdvisoryIffAbove10000 ==
    /\ WarnRate \in shown => Calculated
    /\ Calculated =>
          /\ WarnRate \in shown <=> RLess(<<10000, 1>>, application_rate_kg_per_ha)
          /\ biomass_kg = RMul(RMul(RMul(area_m2, SelectedProfile.coverage_fraction),
                                    height_m), SelectedProfile.density)
          /\ biochar_kg = RMul(biomass_kg, SelectedProfile.yield_factor)
          /\ application_rate_kg_per_ha = RDiv(biochar_kg, RDiv(area_m2, <<10000, 1>>))
          /\ ~ uncaught

\* C6 witness: the advisory is shown together with the results.
C6_Witness ==
    /\ WarnRate \in shown
    /\ Results \in shown
    /\ Positive(biochar_kg)
    /\ RLess(<<10000, 1>>, application_rate_kg_per_ha)

\* C7: the area input methods include an image (pixel-count) method besides
\* the direct and the polygon one.
C7_ImageIsAnInputMethod ==
    /\ area_input_method \in AreaInputMethods
    /\ \E m \in AreaInputMethods : m \notin {Direct, PolygonCoordinates}

HeightInputs ==
    HeightChoices \cup {FeedstockTable[n].default_height : n \in DOMAIN FeedstockTable}

\* C8: for the feedstock and area of a calculation, every greater pile height
\* gives strictly more biomass, biochar and rate, and every smaller positive
\* one strictly less.
C8_MonotonicInHeight ==
    Calculated =>
        \A h2 \in HeightInputs :
            LET e == Estimate(SelectedProfile, area_m2, h2)
            IN  /\ RLess(height_m, h2) =>
                      /\ RLess(biomass_kg, e.biomass_kg)
                      /\ RLess(biochar_kg, e.biochar_kg)
                      /\ RLess(application_rate_kg_per_ha, e.application_rate_kg_per_ha)
                /\ (RLess(Zero, h2) /\ RLess(h2, height_m)) =>
                      /\ RLess(e.biomass_kg, biomass_kg)
                      /\ RLess(e.biochar_kg, biochar_kg)
                      /\ RLess(e.application_rate_kg_per_ha, application_rate_kg_per_ha)

\* C8 witness: a calculation whose height has both a smaller positive and a
\* greater height among the inputs.
C8_Witness ==
    /\ Calculated
    /\ \E h1, h2 \in HeightInputs :
          RLess(Zero, h1) /\ RLess(h1, height_m) /\ RLess(height_m, h2)

\* C9: the namespace and page after any run are those that the same widget
\* values give in a first run with nothing defined before; in particular no
\* area of an earlier run is reused, and the feedstock table is unchanged.
C9_StatelessRuns ==
    /\ Namespace = Script(None, feedstock_type, area_input_method, hectares,
                          coords_text, height_m, clicked)
    /\ FEEDSTOCK_DATA = FeedstockTable
    /\ (area_input_method = PolygonCoordinates /\ SuccessPolygon \notin shown)
          => area_m2 = None

\* C9 witness: a click in a polygon run that resolves no area.  The page opens
\* with the Direct method, whose runs always resolve an area, so every such
\* state comes after a run that resolved one.
C9_Witness ==
    /\ area_input_method = PolygonCoordinates
    /\ area_m2 = None
    /\ clicked
    /\ InfoIncomplete \in shown

TriangleText ==
    << <<NumTok(0), NumTok(0)>>, <<NumTok(0), NumTok(1)>>, <<NumTok(1), NumTok(0)>> >>

AreaInputs ==
    {ResolveArea(None, Direct, k, <<>>).area_m2 : k \in 1..MaxHectares}
        \cup {ResolveArea(None, PolygonCoordinates, 0, TriangleText).area_m2}

====
